---- MODULE Spec2Model ----
(***************************************************************************)
(* Funding-rate aggregation engine: the /api/funding-rates route (the      *)
(* Aggregator, the Arbitrage Detector, the route's snapshot cache and its  *)
(* 30-second broadcast timer) and the /api/socket route (the Socket.IO     *)
(* subscribers and their own snapshot cache).                              *)
(*                                                                         *)
(* Units of the model.  A funding rate as an exchange reports it (a        *)
(* decimal fraction in a JSON string) is an integer count of 1e-8; a       *)
(* currentRate (a percentage printed by toFixed(4)) is an integer count of *)
(* 1e-4 percent; a settlement interval is an integer count of minutes      *)
(* (8 h = 480); a time is an integer count of milliseconds.                *)
(***************************************************************************)
EXTENDS Integers, Sequences, FiniteSets, TLC

----------------------------------------------------------------------------
(* JavaScript values *)

\* A JS number: NaN, an infinity (inf is its sign) or an integer count of the
\* unit at hand.
NaN == [nan |-> TRUE, inf |-> 0, v |-> 0]

Num(x) == [nan |-> FALSE, inf |-> 0, v |-> x]

Infinite(sign) == [nan |-> FALSE, inf |-> sign, v |-> 0]

\* A field of a JSON object: absent, a string that is no number, a numeric
\* string / number, or the string "Infinity" / "-Infinity".
Absent == [k |-> "absent"]

Text == [k |-> "text"]

NumStr(x) == [k |-> "num", v |-> x]

InfStr(sign) == [k |-> "inf", v |-> sign]

\* JS truthiness of a field holding a string: absent (undefined) is falsy, a
\* present non-empty string ("0" included) is truthy.
Truthy(f) == f.k # "absent"

parseFloat(f) ==
    IF f.k = "num" THEN Num(f.v)
    ELSE IF f.k = "inf" THEN Infinite(f.v)
    ELSE NaN

parseInt(f) == IF f.k = "num" THEN Num(f.v) ELSE NaN

\* n || d for a JS number n: NaN and 0 are falsy.
OrDefault(n, d) == IF n.nan \/ n.v = 0 THEN d ELSE n.v

Abs(x) == IF x < 0 THEN -x ELSE x

\* (parseFloat(raw) * 100).toFixed(4) read back by parseFloat: the fraction
\* (count of 1e-8) as a percentage rounded to 4 decimals (count of 1e-4
\* percent); NaN prints as "NaN" and an infinity as "Infinity", and they
\* parse as themselves.  toFixed rounds the binary value of the product,
\* so a raw rate that is a decimal tie (a count ending in 50) goes either
\* way; the model draws none, and rounds it away from zero.
RateToFixed4(n) ==
    IF n.nan THEN NaN
    ELSE IF n.inf # 0 THEN n
    ELSE IF n.v < 0 THEN Num(-((Abs(n.v) + 50) \div 100))
    ELSE Num((n.v + 50) \div 100)

\* An instrument identifier is a sequence of tokens, the quote suffix being
\* one token: "BTCUSDT" is <<"BTC", "USDT">>, "BTC-USDT-SWAP" is
\* <<"BTC", "-USDT-SWAP">>, "BTC_USDT" is <<"BTC", "_USDT">>.
EndsWith(s, tok) == Len(s) > 0 /\ s[Len(s)] = tok

\* s.replace(tok, ''): the first occurrence removed.
ReplaceFirst(s, tok) ==
    LET hits == {i \in 1..Len(s) : s[i] = tok} IN
    IF hits = {} THEN s
    ELSE LET h == CHOOSE i \in hits : \A j \in hits : i <= j IN
         [i \in 1..(Len(s) - 1) |-> IF i < h THEN s[i] ELSE s[i + 1]]

\* instId.split('-')[0]: the text before the first '-'.
SplitDashFirst(s) ==
    IF Len(s) = 0 \/ s[1] = "-USDT-SWAP" THEN <<>> ELSE <<s[1]>>

----------------------------------------------------------------------------
(* Upstream payloads *)

\* A response slot of the batch fetch, by the shape of what was received:
\*   "null"       the call failed, answered non-2xx or sent text that is no
\*                JSON (the slot is null);
\*   "obj"        a JSON object without the expected fields (an error body);
\*   "list"       a JSON array at top level, its elements in items;
\*   "wrapped"    the exchange's envelope object with an array at the path
\*                the code reads (result.list, data), its elements in items;
\*   "wrappedObj" the envelope with a non-array object at that path.
Null == [shape |-> "null"]

ErrorBody == [shape |-> "obj"]

List(xs) == [shape |-> "list", items |-> xs]

Wrapped(xs) == [shape |-> "wrapped", items |-> xs]

WrappedObj == [shape |-> "wrappedObj"]

\* The last index of s whose element has the given symbol, 0 if none: the
\* entry a forEach that assigns map[x.symbol] leaves in the map.
LastIndexOf(s, sym) ==
    LET hits == {i \in 1..Len(s) : s[i].symbol = sym} IN
    IF hits = {} THEN 0 ELSE CHOOSE i \in hits : \A j \in hits : j <= i

\* A top-level array is expected: anything else that is truthy has no
\* forEach / filter and the call raises a TypeError.
ThrowsUnlessArray(p) == p.shape \in {"obj", "wrapped", "wrappedObj"}

\* p?.result?.list or p?.data is expected to be an array: a missing path
\* is falsy (skipped), a non-array at the path raises a TypeError.
ThrowsUnlessWrappedArray(p) == p.shape = "wrappedObj"

----------------------------------------------------------------------------
(* Rate Normalizers (fetchAllExchangeData, second half) *)

\* binanceIntervals[sym] || 8, in minutes: the map holds
\* parseInt(info.fundingIntervalHours) || 8 per listed symbol.
binanceIntervals(info, sym) ==
    IF info.shape # "list" THEN 8 * 60
    ELSE LET i == LastIndexOf(info.items, sym) IN
         IF i = 0 THEN 8 * 60
         ELSE OrDefault(parseInt(info.items[i].fundingIntervalHours), 8) * 60

\* bybitIntervals[sym] || 8, in minutes: the map holds
\* (parseInt(instrument.fundingInterval) || 480) / 60 hours.
bybitIntervals(info, sym) ==
    IF info.shape # "wrapped" THEN 8 * 60
    ELSE LET i == LastIndexOf(info.items, sym) IN
         IF i = 0 THEN 8 * 60
         ELSE OrDefault(parseInt(info.items[i].fundingInterval), 480)

\* bitgetIntervals[sym] || 8, in minutes: the map holds
\* parseInt(contract.fundInterval) || 8 hours.
bitgetIntervals(info, sym) ==
    IF info.shape # "wrapped" THEN 8 * 60
    ELSE LET i == LastIndexOf(info.items, sym) IN
         IF i = 0 THEN 8 * 60
         ELSE OrDefault(parseInt(info.items[i].fundInterval), 8) * 60

binanceRate(item, info) ==
    LET interval == binanceIntervals(info, item.symbol) IN
    [symbol |-> ReplaceFirst(item.symbol, "USDT"),
     exchange |-> "Binance",
     currentRate |-> RateToFixed4(parseFloat(item.lastFundingRate)),
     isSpecialInterval |-> interval # 8 * 60,
     settlementInterval |-> interval]

binanceRates(data, info) ==
    IF data.shape # "list" THEN <<>>
    ELSE LET kept == SelectSeq(data.items, LAMBDA it : EndsWith(it.symbol, "USDT")) IN
         [i \in 1..Len(kept) |-> binanceRate(kept[i], info)]

bybitRate(item, info) ==
    LET interval == bybitIntervals(info, item.symbol) IN
    [symbol |-> ReplaceFirst(item.symbol, "USDT"),
     exchange |-> "Bybit",
     currentRate |-> RateToFixed4(parseFloat(item.fundingRate)),
     isSpecialInterval |-> interval # 8 * 60,
     settlementInterval |-> interval]

bybitRates(data, info) ==
    IF data.shape # "wrapped" THEN <<>>
    ELSE LET kept == SelectSeq(data.items,
                 LAMBDA it : EndsWith(it.symbol, "USDT") /\ Truthy(it.fundingRate)) IN
         [i \in 1..Len(kept) |-> bybitRate(kept[i], info)]

bitgetRate(item, info) ==
    LET interval == bitgetIntervals(info, item.symbol) IN
    [symbol |-> ReplaceFirst(item.symbol, "USDT"),
     exchange |-> "Bitget",
     currentRate |-> RateToFixed4(parseFloat(item.fundingRate)),
     isSpecialInterval |-> interval # 8 * 60,
     settlementInterval |-> interval]

bitgetRates(data, info) ==
    IF data.shape # "wrapped" THEN <<>>
    ELSE LET kept == SelectSeq(data.items,
                 LAMBDA it : Len(it.symbol) > 0 /\ Truthy(it.fundingRate)) IN
         [i \in 1..Len(kept) |-> bitgetRate(kept[i], info)]

\* HyperLiquid: [metadata, assetContexts] zipped by index.  A payload that
\* is no array cannot be destructured and a universe entry without its
\* assetContexts entry raises a TypeError; both are caught and leave [].
hyperliquidRates(data) ==
    IF data.shape # "list" THEN <<>>
    ELSE IF Len(data.ctxs) < Len(data.universe) THEN <<>>
    ELSE [i \in 1..Len(data.universe) |->
            [symbol |-> data.universe[i].name,
             exchange |-> "HyperLiquid",
             currentRate |-> RateToFixed4(parseFloat(data.ctxs[i].funding)),
             isSpecialInterval |-> TRUE,
             settlementInterval |-> 1 * 60]]

\* Gate: funding_interval / 3600 || 8 hours, funding_interval a number of
\* seconds (undefined / 3600 is NaN, which is falsy like 0).
gateInterval(contract) ==
    LET s == contract.funding_interval IN
    IF s.k # "num" \/ s.v = 0 THEN 8 * 60 ELSE s.v \div 60

\* A faulty Gate normalizer, to test that a property notices it: no rate is
\* marked as being on a special interval.
gateRateNeverSpecial(contract) ==
    [symbol |-> ReplaceFirst(contract.name, "_USDT"),
     exchange |-> "Gate",
     currentRate |-> RateToFixed4(parseFloat(contract.funding_rate)),
     isSpecialInterval |-> FALSE,
     settlementInterval |-> gateInterval(contract)]

gateRate(contract) ==
    LET interval == gateInterval(contract) IN
    [symbol |-> ReplaceFirst(contract.name, "_USDT"),
     exchange |-> "Gate",
     currentRate |-> RateToFixed4(parseFloat(contract.funding_rate)),
     isSpecialInterval |-> interval # 8 * 60,
     settlementInterval |-> interval]

gateRates(data) ==
    IF data.shape # "list" THEN <<>>
    ELSE LET usdt == SelectSeq(data.items, LAMBDA c : EndsWith(c.name, "_USDT"))
             kept == SelectSeq(usdt, LAMBDA c : Truthy(c.funding_rate))
         IN  [i \in 1..Len(kept) |-> gateRate(kept[i])]

\* OKX step 1: the USDT perpetual instrument ids of the ticker listing.
\* The whole OKX block runs in a try: a null or misshapen listing leaves [].
okxUsdtContracts(tickers) ==
    IF tickers.shape # "wrapped" THEN <<>>
    ELSE LET kept == SelectSeq(tickers.items,
                 LAMBDA it : Len(it.instId) > 0 /\ EndsWith(it.instId, "-USDT-SWAP")) IN
         [i \in 1..Len(kept) |-> kept[i].instId]

\* OKX step 3, the map's callback: TRUE when it returns null (no instId, a
\* funding rate that is missing, zero or NaN, or a funding time that is no
\* number, for which new Date(NaN).toISOString() raises a RangeError).
okxDropped(item) ==
    LET fundingRate == parseFloat(item.fundingRate) IN
    \/ Len(item.instId) = 0
    \/ fundingRate.nan \/ (fundingRate.inf = 0 /\ fundingRate.v = 0)
    \/ parseInt(item.nextFundingTime).nan
    \/ parseInt(item.fundingTime).nan

\* (nextFundingTime - fundingTime) / (1000 * 60 * 60) hours, in minutes (the
\* funding times the model draws are whole minutes apart).
okxRate(item) ==
    LET nextFundingTime == parseInt(item.nextFundingTime).v
        currentFundingTime == parseInt(item.fundingTime).v
        interval == (nextFundingTime - currentFundingTime) \div (1000 * 60)
    IN  [symbol |-> SplitDashFirst(item.instId),
         exchange |-> "OKX",
         currentRate |-> RateToFixed4(parseFloat(item.fundingRate)),
         isSpecialInterval |-> interval # 8 * 60,
         settlementInterval |-> interval,
         nextFundingTime |-> nextFundingTime,
         fundingTime |-> currentFundingTime]

okxKeptNone(batchResults) == <<>>

\* batchResults.filter(result => result !== null)
okxKept(batchResults) == SelectSeq(batchResults, LAMBDA d : d.shape # "null")

\* OKX step 3: answers without data[0] are dropped, then the items the
\* callback drops.
okxRatesOf(okxFundingRatesData) ==
    LET withItem == SelectSeq(okxFundingRatesData,
                        LAMBDA d : d.shape = "wrapped" /\ Len(d.items) > 0)
        kept == SelectSeq(withItem, LAMBDA d : ~okxDropped(d.items[1]))
    IN  [i \in 1..Len(kept) |-> okxRate(kept[i].items[1])]

\* OKX steps 2 and 3: calls[i] is what the i-th per-instrument call
\* returned (null on any error or timeout).  The non-null results of the
\* batches, pushed batch after batch, are the non-null results in order.
okxRates(tickers, calls) ==
    LET n == Len(okxUsdtContracts(tickers))
        results == [i \in 1..n |-> calls[i]]
    IN  okxRatesOf(okxKept(results))

\* The validity filter of the merge: currentRate (a non-empty string) parses
\* to a number that is neither NaN nor 0.
validRate(item) ==
    /\ ~item.currentRate.nan
    /\ item.currentRate.inf # 0 \/ item.currentRate.v # 0

\* What the six normalizers produce, in the order of the merge: Binance,
\* Bybit, Bitget, OKX, HyperLiquid, Gate.
producedRates(r) ==
    binanceRates(r.binanceRatesData, r.binanceFundingInfoData)
    \o bybitRates(r.bybitRatesData, r.bybitInstrumentsData)
    \o bitgetRates(r.bitgetRatesData, r.bitgetContractsData)
    \o okxRates(r.okxTickersData, r.okxFundingCalls)
    \o hyperliquidRates(r.hyperliquidData)
    \o gateRates(r.gateContractsData)

\* The merged rate set.
allRates(r) == SelectSeq(producedRates(r), validRate)

\* The first statement of fetchAllExchangeData's outer try that raises,
\* "" when none does.  Only the unguarded blocks can raise: the interval
\* maps and the Binance, Bybit and Bitget normalizers.
fetchError(r) ==
    IF ThrowsUnlessArray(r.binanceFundingInfoData)
        THEN "binanceFundingInfoData.forEach is not a function"
    ELSE IF ThrowsUnlessWrappedArray(r.bybitInstrumentsData)
        THEN "bybitInstrumentsData.result.list.forEach is not a function"
    ELSE IF ThrowsUnlessArray(r.binanceRatesData)
        THEN "binanceRatesData.filter is not a function"
    ELSE IF ThrowsUnlessWrappedArray(r.bitgetContractsData)
        THEN "bitgetContractsData.data.forEach is not a function"
    ELSE IF ThrowsUnlessWrappedArray(r.bybitRatesData)
        THEN "bybitRatesData.result.list.filter is not a function"
    ELSE IF ThrowsUnlessWrappedArray(r.bitgetRatesData)
        THEN "bitgetRatesData.data.filter is not a function"
    ELSE ""

----------------------------------------------------------------------------
(* Arbitrage Detector (calculateArbitrageOpportunities) *)

\* An annualYield is profit * (24 / intervalHours) * 365: the record
\* [p, m] stands for p * 525600 / m (count of 1e-4 percent), p the profit
\* per settlement and m the interval in minutes.
Yield(p, m) == [p |-> p, m |-> m]

\* annualYield > 1 (percent): p * 525600 / m > 10000.
YieldAboveOne(y) ==
    IF y.m > 0 THEN y.p * 525600 > 10000 * y.m ELSE y.p * 525600 < 10000 * y.m

\* a.annualYield > b.annualYield, by cross-multiplication.
YieldGreater(a, b) ==
    LET an == IF a.m < 0 THEN -a.p ELSE a.p
        ad == Abs(a.m)
        bn == IF b.m < 0 THEN -b.p ELSE b.p
        bd == Abs(b.m)
    IN  an * bd > bn * ad

\* The forEach that groups: a rate without symbol or exchange, or whose
\* currentRate is no number, joins no group.
grouped(rate) ==
    /\ Len(rate.symbol) > 0
    /\ rate.exchange # ""
    /\ ~rate.currentRate.nan

\* What is pushed to the group: currentRate as a number (finite in every
\* input the model gives the detector), settlementInterval || 8 (the rates
\* of this engine carry no isHourly).
groupEntry(rate) ==
    [symbol |-> rate.symbol,
     exchange |-> rate.exchange,
     currentRate |-> rate.currentRate.v,
     settlementInterval |->
        IF rate.settlementInterval = 0 THEN 8 * 60 ELSE rate.settlementInterval]

\* Object.keys(groupedRates): the symbols in order of first appearance.  A
\* key is created before the NaN check, so a symbol whose rates are all NaN
\* is a key with an empty group.
RECURSIVE groupKeys(_)
groupKeys(rates) ==
    IF rates = <<>> THEN <<>>
    ELSE LET head == rates[Len(rates)]
             before == groupKeys(SubSeq(rates, 1, Len(rates) - 1))
         IN  IF Len(head.symbol) = 0 \/ head.exchange = "" THEN before
             ELSE IF \E i \in 1..Len(before) : before[i] = head.symbol THEN before
             ELSE Append(before, head.symbol)

symbolRates(rates, symbol) ==
    LET mine == SelectSeq(rates, LAMBDA x : grouped(x) /\ x.symbol = symbol) IN
    [i \in 1..Len(mine) |-> groupEntry(mine[i])]

\* The detector computes in IEEE-754 doubles on the rates parsed from their
\* four-decimal strings.  A comparison whose two sides differ in exact
\* arithmetic comes out as in exact arithmetic (the sides are multiples of
\* 1e-4 and of 1e-8, the rounding errors are below 1e-15).  A comparison
\* whose two sides are equal in exact arithmetic goes the way the rounding
\* of the operands lies: the two sets below list, for rates within
\* +-0.0060 %, the pairs <<a, a + d>> by their lower rate a.

\* Pairs 0.0010 % apart (d = 10) whose double difference is below the
\* double 0.001, as 0.0012 - 0.0002 = 0.0009999999999999998.
RoundsBelowNoiseFloor ==
    {-48, -45, -42, -29, -26, -24, -21, -12, 2, 11, 14, 16, 19, 32, 35, 38}

\* Pairs 0.0025 % apart (d = 25) on a 21.9-hour interval, the annualYield
\* of which is 1 in exact arithmetic, whose double product
\* |rateDiff| * (24 / 21.9) * 365 is exactly 1; for the others it is
\* 1.0000000000000002.
RoundsToYieldOne ==
    {-58, -55, -52, -48, -45, -42, -39, -36, -34, -29, -24, -13, -12, -1,
     4, 9, 11, 14, 17, 20, 23, 27, 30, 33}

lowerOf(a, b) == IF a < b THEN a ELSE b

\* Math.abs(rateDiff) < 0.001
belowNoiseFloor(a, b) ==
    IF Abs(a - b) # 10 THEN Abs(a - b) < 10
    ELSE lowerOf(a, b) \in RoundsBelowNoiseFloor

\* annualYield > 1 of a same-period pair with rates a, b on an interval of
\* m minutes.
sameYieldAboveOne(a, b, m) ==
    IF Abs(a - b) * 525600 # 10000 * m THEN YieldAboveOne(Yield(Abs(a - b), m))
    ELSE lowerOf(a, b) \notin RoundsToYieldOne

profitAtLeastMinimum(expectedProfit) == expectedProfit >= 50

\* expectedProfit > 0.005 (expectedProfit is the absolute value of a parsed
\* rate: no arithmetic, no rounding).
profitAboveMinimum(expectedProfit) == expectedProfit > 50

sameLongAlwaysFirst(rate1, rate2) == rate1

\* The side of a same-period pair that is held long: the one with the
\* lower rate.
sameLong(rate1, rate2) ==
    IF rate1.currentRate - rate2.currentRate > 0 THEN rate2 ELSE rate1

sameShort(rate1, rate2) ==
    IF rate1.currentRate - rate2.currentRate > 0 THEN rate1 ELSE rate2

shortPeriodAlwaysFirst(rate1, rate2) == rate1

\* The side of a different-period pair that settles on the shorter
\* interval, and the other one.
shortPeriodOf(rate1, rate2) ==
    IF rate1.settlementInterval < rate2.settlementInterval THEN rate1 ELSE rate2

longPeriodOf(rate1, rate2) ==
    IF rate1.settlementInterval < rate2.settlementInterval THEN rate2 ELSE rate1

\* The opportunity of one pair (rate1 before rate2 in the group), as a
\* sequence of zero or one records.
pairOpportunity(symbol, rate1, rate2) ==
    IF rate1.settlementInterval # rate2.settlementInterval
    THEN LET shortPeriodRate == shortPeriodOf(rate1, rate2)
             longPeriodRate == longPeriodOf(rate1, rate2)
             expectedProfit == Abs(shortPeriodRate.currentRate)
         IN  IF shortPeriodRate.currentRate < 0 /\ profitAboveMinimum(expectedProfit)
             THEN <<[symbol |-> symbol,
                     type |-> "different_period",
                     longExchange |-> shortPeriodRate.exchange,
                     shortExchange |-> longPeriodRate.exchange,
                     longRate |-> shortPeriodRate.currentRate,
                     shortRate |-> longPeriodRate.currentRate,
                     rateDiff |-> Abs(shortPeriodRate.currentRate
                                      - longPeriodRate.currentRate),
                     settlementPeriod1 |-> shortPeriodRate.settlementInterval,
                     settlementPeriod2 |-> longPeriodRate.settlementInterval,
                     expectedProfit |-> expectedProfit,
                     annualYield |-> Yield(expectedProfit,
                                           shortPeriodRate.settlementInterval)]>>
             ELSE <<>>
    ELSE LET rateDiff == rate1.currentRate - rate2.currentRate
             annualYield == Yield(Abs(rateDiff), rate1.settlementInterval)
         IN  IF belowNoiseFloor(rate1.currentRate, rate2.currentRate) THEN <<>>
             ELSE IF sameYieldAboveOne(rate1.currentRate, rate2.currentRate,
                                       rate1.settlementInterval)
             THEN <<[symbol |-> symbol,
                     type |-> "same_period",
                     longExchange |-> sameLong(rate1, rate2).exchange,
                     shortExchange |-> sameShort(rate1, rate2).exchange,
                     longRate |-> sameLong(rate1, rate2).currentRate,
                     shortRate |-> sameShort(rate1, rate2).currentRate,
                     rateDiff |-> Abs(rateDiff),
                     settlementPeriod |-> rate1.settlementInterval,
                     annualYield |-> annualYield]>>
             ELSE <<>>

\* The two nested for loops over one group, from the pair (i, j) on.
RECURSIVE groupOpportunities(_, _, _, _)
groupOpportunities(symbol, g, i, j) ==
    IF i >= Len(g) THEN <<>>
    ELSE IF j > Len(g) THEN groupOpportunities(symbol, g, i + 1, i + 2)
    ELSE pairOpportunity(symbol, g[i], g[j])
         \o groupOpportunities(symbol, g, i, j + 1)

\* The forEach over Object.keys(groupedRates), from key k on.
RECURSIVE unsortedOpportunities(_, _, _)
unsortedOpportunities(rates, keys, k) ==
    IF k > Len(keys) THEN <<>>
    ELSE groupOpportunities(keys[k], symbolRates(rates, keys[k]), 1, 2)
         \o unsortedOpportunities(rates, keys, k + 1)

sortsBeforeByYieldOnly(a, b) == YieldGreater(a.annualYield, b.annualYield)

\* The sort's comparator is negative: a goes before b.
sortsBefore(a, b) ==
    IF a.type # b.type THEN a.type = "different_period"
    ELSE YieldGreater(a.annualYield, b.annualYield)

\* Array.prototype.sort is stable: each element goes before the first
\* already placed element it sorts before, else to the end.
insertSorted(sorted, x) ==
    LET later == {i \in 1..Len(sorted) : sortsBefore(x, sorted[i])}
        at == IF later = {} THEN Len(sorted) + 1
              ELSE CHOOSE i \in later : \A j \in later : i <= j
    IN  SubSeq(sorted, 1, at - 1) \o <<x>> \o SubSeq(sorted, at, Len(sorted))

RECURSIVE sortOpportunities(_)
sortOpportunities(opps) ==
    IF opps = <<>> THEN <<>>
    ELSE insertSorted(sortOpportunities(SubSeq(opps, 1, Len(opps) - 1)),
                      opps[Len(opps)])

ratesAfterSortedInPlace(rates) ==
    LET n == Len(rates) IN [i \in 1..n |-> rates[n + 1 - i]]

\* The rates array after a run: the detector reads it with forEach and
\* pushes copies ({...rate}) to its groups, and sorts only its own
\* opportunities array; the argument is left as it was.
ratesAfter(rates) == rates

calculateArbitrageOpportunities(rates) ==
    sortOpportunities(unsortedOpportunities(rates, groupKeys(rates), 1))

\* fetchAllExchangeData: what one refresh cycle returns for the responses r
\* of its upstream calls.
fetchAllExchangeData(r) ==
    IF fetchError(r) # ""
    THEN [success |-> FALSE, data |-> <<>>, error |-> fetchError(r)]
    ELSE [success |-> TRUE,
          data |-> allRates(r),
          arbitrageOpportunities |-> calculateArbitrageOpportunities(allRates(r)),
          debug |-> [binanceCount |->
                        Len(binanceRates(r.binanceRatesData, r.binanceFundingInfoData)),
                     bybitCount |->
                        Len(bybitRates(r.bybitRatesData, r.bybitInstrumentsData)),
                     bitgetCount |->
                        Len(bitgetRates(r.bitgetRatesData, r.bitgetContractsData)),
                     okxCount |-> Len(okxRates(r.okxTickersData, r.okxFundingCalls)),
                     hyperliquidCount |-> Len(hyperliquidRates(r.hyperliquidData)),
                     gateCount |-> Len(gateRates(r.gateContractsData)),
                     totalCount |-> Len(allRates(r))]]

----------------------------------------------------------------------------
(* The upstream responses the model draws from *)

\* A well-formed payload of each endpoint: BTC on Binance (8 h, 0.0100 %),
\* Bybit (8 h, -0.0050 %), Bitget (4 h) and Gate (4 h); ETH on OKX (8 h,
\* 0.0020 %) and HyperLiquid (1 h, -0.0080 %).
ValidResponses ==
    [binanceRatesData |->
        List(<<[symbol |-> <<"BTC", "USDT">>, lastFundingRate |-> NumStr(10000)],
               [symbol |-> <<"ETH", "USDC">>, lastFundingRate |-> NumStr(3000)]>>),
     binanceFundingInfoData |->
        List(<<[symbol |-> <<"BTC", "USDT">>, fundingIntervalHours |-> NumStr(8)]>>),
     bybitRatesData |->
        Wrapped(<<[symbol |-> <<"BTC", "USDT">>, fundingRate |-> NumStr(-5000)]>>),
     bybitInstrumentsData |->
        Wrapped(<<[symbol |-> <<"BTC", "USDT">>, fundingInterval |-> NumStr(480)]>>),
     bitgetRatesData |->
        Wrapped(<<[symbol |-> <<"BTC", "USDT">>, fundingRate |-> NumStr(7000)]>>),
     bitgetContractsData |->
        Wrapped(<<[symbol |-> <<"BTC", "USDT">>, fundInterval |-> NumStr(4)]>>),
     okxTickersData |->
        Wrapped(<<[instId |-> <<"ETH", "-USDT-SWAP">>],
                  [instId |-> <<"ETH", "-USD-SWAP">>]>>),
     okxInstrumentsData |-> Wrapped(<<>>),
     okxFundingCalls |->
        <<Wrapped(<<[instId |-> <<"ETH", "-USDT-SWAP">>,
                     fundingRate |-> NumStr(2000),
                     nextFundingTime |-> NumStr(28800000),
                     fundingTime |-> NumStr(0)]>>)>>,
     hyperliquidData |->
        [shape |-> "list",
         universe |-> <<[name |-> <<"ETH">>]>>,
         ctxs |-> <<[funding |-> NumStr(-8000)]>>],
     gateContractsData |->
        List(<<[name |-> <<"BTC", "_USDT">>,
                funding_rate |-> NumStr(10049),
                funding_interval |-> NumStr(14400)]>>)]

\* The ten slots of the batch fetch (apiCalls, in order).
Slots ==
    {"binanceRatesData", "binanceFundingInfoData", "bybitRatesData",
     "bybitInstrumentsData", "bitgetRatesData", "bitgetContractsData",
     "okxTickersData", "okxInstrumentsData", "hyperliquidData",
     "gateContractsData"}

\* The slots that carry rates, one per exchange (the others carry the
\* settlement intervals of Binance, Bybit and Bitget, and an unused list).
RateSlots ==
    {"binanceRatesData", "bybitRatesData", "bitgetRatesData",
     "okxTickersData", "hyperliquidData", "gateContractsData"}

\* Every upstream call of every exchange fails.
AllFailed ==
    [binanceRatesData |-> Null, binanceFundingInfoData |-> Null,
     bybitRatesData |-> Null, bybitInstrumentsData |-> Null,
     bitgetRatesData |-> Null, bitgetContractsData |-> Null,
     okxTickersData |-> Null, okxInstrumentsData |-> Null,
     okxFundingCalls |-> <<>>,
     hyperliquidData |-> Null, gateContractsData |-> Null]

\* The outcomes a refresh cycle of the engine's state machine draws from:
\* everything answers; everything fails; Binance answers 200 with an error
\* object where the rate list is expected and the others answer well.
Scenarios ==
    {ValidResponses,
     AllFailed,
     [ValidResponses EXCEPT !.binanceRatesData = ErrorBody]}

\* Each scenario with what fetchAllExchangeData returns for it.
CycleOutcomes ==
    {[responses |-> r, rates |-> fetchAllExchangeData(r)] : r \in Scenarios}

----------------------------------------------------------------------------
(* The engine's state *)

\* Cache TTL of the /api/funding-rates route and of the /api/socket route,
\* and the period of the broadcast timer (ms).
CACHE_DURATION == 60000

SOCKET_CACHE_DURATION == 60000

BROADCAST_INTERVAL == 30000

\* Bounds of the model: the clock advances by BROADCAST_INTERVAL /
\* StepsPerInterval up to MaxIntervals timer periods; at most MaxRequests
\* requests to /api/funding-rates and MaxBroadcasts runs of broadcastData
\* are in flight at once; MaxSubscribers Socket.IO clients exist.
StepsPerInterval == 1

MaxIntervals == 2

MaxRequests == 2

MaxBroadcasts == 1

MaxSubscribers == 1

TimeStep == BROADCAST_INTERVAL \div StepsPerInterval

MaxTime == BROADCAST_INTERVAL * MaxIntervals

Subscribers == 1..MaxSubscribers

RequestIds == 1..MaxRequests

\* The browser, as the origin of a request to /api/funding-rates (the other
\* origins are the subscribers on whose behalf /api/socket fetches).
Browser == 0

\* cachedData = null.
NoData == [null |-> TRUE]

FreeRequest == [state |-> "free"]

VARIABLES
    now,            \* Date.now()
    route,          \* cachedData, lastCacheTime of the /api/funding-rates module
    socket,         \* cachedData, lastCacheTime of the /api/socket module
    requests,       \* the requests to /api/funding-rates in flight, by id
    broadcasts,     \* the runs of broadcastData awaiting fetchAllExchangeData
    connected,      \* the subscribers connected to the /api/socket server
    lastPullCycle,  \* history: when the last request that started a refresh
                    \* cycle was handled, -1 if none since the last timer tick
    out,            \* history: what the last step did and sent
    batch,          \* the upstream calls of one refresh cycle taken alone
    given,          \* the input a function of the engine is applied to
    computed        \* what the function returned for it

\* The state of the engine, and the state of the specifications that take
\* one refresh cycle or one function of the engine alone.
engineVars == <<now, route, socket, requests, broadcasts, connected, lastPullCycle, out>>

aloneVars == <<batch, given, computed>>

vars == <<now, route, socket, requests, broadcasts, connected, lastPullCycle, out,
          batch, given, computed>>

\* A variable of a specification other than the one at hand.
Unused == [unused |-> TRUE]

\* The sockets of the Server the funding-rates module creates (new Server()
\* with no HTTP server attached, kept in global.io): no client can connect
\* to it.  The subscribers connect to the Server of /api/socket, which is
\* kept in res.socket.server.io.
globalIoSockets == {}

\* The refresh cycles (fetchAllExchangeData) in flight.
inFlightCycles ==
    Cardinality({id \in RequestIds : requests[id].state = "fetching"}) + broadcasts

Init ==
    /\ now = 0
    /\ route = [cachedData |-> NoData, lastCacheTime |-> 0]
    /\ socket = [cachedData |-> NoData, lastCacheTime |-> 0]
    /\ requests = [id \in RequestIds |-> FreeRequest]
    /\ broadcasts = 0
    /\ connected = {}
    /\ lastPullCycle = -1
    /\ out = [op |-> "init"]
    /\ batch = Unused
    /\ given = Unused
    /\ computed = Unused

----------------------------------------------------------------------------
(* /api/funding-rates: handler and broadcastData *)

\* {...d, lastUpdate: t}
WithLastUpdate(d, t) ==
    [f \in DOMAIN d \cup {"lastUpdate"} |-> IF f = "lastUpdate" THEN t ELSE d[f]]

\* handler: the cache is valid and the cached snapshot is the response.
handlerServesCache(cache, currentTime) ==
    cache.cachedData # NoData /\ currentTime - cache.lastCacheTime < CACHE_DURATION

\* handler: !rates || !rates.success || !Array.isArray(rates.data)
handlerFailed(rates) == ~rates.success

\* handler: the response data it constructs from the rates at time t.
handlerResult(rates, t) ==
    [success |-> TRUE,
     data |-> rates.data,
     arbitrageOpportunities |-> calculateArbitrageOpportunities(rates.data),
     lastUpdate |-> t]

\* A faulty cache update, to test that a property notices it: the snapshot
\* is assigned and the timestamp is left as it was.
handlerCacheUpdateSnapshotOnly(cache, rates, currentTime, t) ==
    IF handlerFailed(rates) THEN cache
    ELSE [cachedData |-> handlerResult(rates, t),
          lastCacheTime |-> cache.lastCacheTime]

\* handler: the module's cache once fetchAllExchangeData has returned rates
\* at time t to the invocation that read the clock at currentTime.
handlerCacheUpdate(cache, rates, currentTime, t) ==
    IF handlerFailed(rates) THEN cache
    ELSE [cachedData |-> handlerResult(rates, t), lastCacheTime |-> currentTime]

\* handler: the response once fetchAllExchangeData has returned (the 500
\* carries a fixed message saying that fetching the funding rates failed).
handlerResponse(rates, t) ==
    IF handlerFailed(rates)
    THEN [status |-> 500,
          body |-> [success |-> FALSE, error |-> "fetching funding rates failed"]]
    ELSE [status |-> 200, body |-> handlerResult(rates, t)]

\* broadcastData: the module's cache once fetchAllExchangeData has returned
\* data at time t.
broadcastCacheUpdate(cache, data, t) ==
    [cachedData |-> data, lastCacheTime |-> t]

FreeIds == {id \in RequestIds : requests[id] = FreeRequest}

FirstFreeId == CHOOSE id \in FreeIds : \A j \in FreeIds : id <= j

\* handler, from its entry to its first await or to its response, for a
\* request of the given origin held in slot id.
HandlerStarts(id, origin, extra) ==
    LET currentTime == now IN
    /\ IF handlerServesCache(route, currentTime)
       THEN /\ requests' =
                 IF origin = Browser THEN requests
                 ELSE [requests EXCEPT ![id] =
                          [state |-> "answered", origin |-> origin,
                           socketTime |-> extra,
                           response |-> [status |-> 200, body |-> route.cachedData]]]
            /\ UNCHANGED lastPullCycle
            /\ out' = [op |-> "pull", origin |-> origin, cycle |-> FALSE,
                       response |-> [status |-> 200, body |-> route.cachedData]]
       ELSE /\ requests' = [requests EXCEPT ![id] =
                               [state |-> "fetching", origin |-> origin,
                                socketTime |-> extra, currentTime |-> currentTime]]
            /\ lastPullCycle' = currentTime
            /\ out' = [op |-> "pull", origin |-> origin, cycle |-> TRUE]
    /\ UNCHANGED <<now, route, socket, broadcasts, connected>>
    /\ UNCHANGED aloneVars

\* A browser requests /api/funding-rates.
PullRequest ==
    /\ handlerServesCache(route, now) \/ FreeIds # {}
    /\ HandlerStarts(IF FreeIds = {} THEN 1 ELSE FirstFreeId, Browser, 0)

\* The request /api/socket sent for a subscriber reaches the handler.
SocketFetchArrives(id) ==
    /\ requests[id].state = "sent"
    /\ HandlerStarts(id, requests[id].origin, requests[id].socketTime)

\* handler, from the return of fetchAllExchangeData (cycle c: the upstream
\* responses and what the cycle returns for them) to its response.
HandlerCompletes(id, c) ==
    /\ requests[id].state = "fetching"
    /\ LET req == requests[id]
           rates == c.rates
           response == handlerResponse(rates, now)
       IN  /\ route' = handlerCacheUpdate(route, rates, req.currentTime, now)
           /\ requests' = [requests EXCEPT ![id] =
                  IF req.origin = Browser THEN FreeRequest
                  ELSE [state |-> "answered", origin |-> req.origin,
                        socketTime |-> req.socketTime, response |-> response]]
           /\ out' = [op |-> "pullDone", origin |-> req.origin, responses |-> c.responses,
                      rates |-> rates, currentTime |-> req.currentTime,
                      response |-> response]
    /\ UNCHANGED <<now, socket, broadcasts, connected, lastPullCycle>>
    /\ UNCHANGED aloneVars

\* Time passes.  When the broadcast timer comes due
\* (setInterval(broadcastData, 30000)), broadcastData runs to its await of
\* fetchAllExchangeData.
AdvanceTimeTo(limit) ==
    /\ now + TimeStep <= limit
    /\ now' = now + TimeStep
    /\ IF (now + TimeStep) % BROADCAST_INTERVAL = 0
       THEN /\ broadcasts < MaxBroadcasts
            /\ broadcasts' = broadcasts + 1
            /\ lastPullCycle' = -1
            /\ out' = [op |-> "tick"]
       ELSE /\ UNCHANGED <<broadcasts, lastPullCycle>>
            /\ out' = [op |-> "time"]
    /\ UNCHANGED <<route, socket, requests, connected>>
    /\ UNCHANGED aloneVars

AdvanceTime == AdvanceTimeTo(MaxTime)

\* broadcastData, from the return of fetchAllExchangeData (cycle c) to its
\* end.
BroadcastCompletes(c) ==
    /\ broadcasts > 0
    /\ LET data == c.rates IN
       /\ route' = broadcastCacheUpdate(route, data, now)
       /\ out' = [op |-> "broadcast", responses |-> c.responses, rates |-> data,
                  to |-> globalIoSockets, message |-> WithLastUpdate(data, now)]
    /\ broadcasts' = broadcasts - 1
    /\ lastPullCycle' = -1
    /\ UNCHANGED <<now, socket, requests, connected>>
    /\ UNCHANGED aloneVars

----------------------------------------------------------------------------
(* /api/socket: the connection handler and its get-funding-rates handler *)

\* get-funding-rates: the cache is missing or expired and the snapshot is
\* fetched from /api/funding-rates.
socketNeedsFetch(cache, currentTime) ==
    cache.cachedData = NoData
    \/ currentTime - cache.lastCacheTime > SOCKET_CACHE_DURATION

\* get-funding-rates: the module's cache once /api/funding-rates has
\* answered 200 with body to the invocation that read the clock at
\* currentTime.
socketCacheUpdate(cache, body, currentTime) ==
    [cachedData |-> body, lastCacheTime |-> currentTime]

\* socket.emit reaches a socket that is still connected.
Reaches(s) == {s} \cap connected

\* io.on('connection'): the cached snapshot, if any, is sent at once.
Connect(s) ==
    /\ s \notin connected
    /\ connected' = connected \cup {s}
    /\ out' = [op |-> "connect", subscriber |-> s,
               messages |-> IF socket.cachedData # NoData
                            THEN <<socket.cachedData>> ELSE <<>>]
    /\ UNCHANGED <<now, route, socket, requests, broadcasts, lastPullCycle>>
    /\ UNCHANGED aloneVars

\* socket.on('disconnect')
Disconnect(s) ==
    /\ s \in connected
    /\ connected' = connected \ {s}
    /\ out' = [op |-> "disconnect", subscriber |-> s]
    /\ UNCHANGED <<now, route, socket, requests, broadcasts, lastPullCycle>>
    /\ UNCHANGED aloneVars

\* socket.on('get-funding-rates'), from its entry to its await of fetch or,
\* with a valid cache, to its emit.
SocketRequest(s) ==
    /\ s \in connected
    /\ LET currentTime == now IN
       IF socketNeedsFetch(socket, currentTime)
       THEN /\ FreeIds # {}
            /\ requests' = [requests EXCEPT ![FirstFreeId] =
                               [state |-> "sent", origin |-> s,
                                socketTime |-> currentTime]]
            /\ out' = [op |-> "socketRequest", subscriber |-> s, fetch |-> TRUE]
       ELSE /\ requests' = requests
            /\ out' = [op |-> "socketRequest", subscriber |-> s, fetch |-> FALSE,
                       to |-> {s},
                       message |-> WithLastUpdate(socket.cachedData, now)]
    /\ UNCHANGED <<now, route, socket, broadcasts, connected, lastPullCycle>>
    /\ UNCHANGED aloneVars

\* get-funding-rates, from the answer of /api/funding-rates to its emit.
SocketFetchReturns(id) ==
    /\ requests[id].state = "answered"
    /\ LET req == requests[id] IN
       IF req.response.status # 200
       THEN /\ socket' = socket
            /\ out' = [op |-> "socketReply", subscriber |-> req.origin,
                       event |-> "error", to |-> Reaches(req.origin)]
       ELSE /\ socket' = socketCacheUpdate(socket, req.response.body, req.socketTime)
            /\ out' = [op |-> "socketReply", subscriber |-> req.origin,
                       event |-> "funding-rates", to |-> Reaches(req.origin),
                       message |-> WithLastUpdate(req.response.body, now)]
    /\ requests' = [requests EXCEPT ![id] = FreeRequest]
    /\ UNCHANGED <<now, route, broadcasts, connected, lastPullCycle>>
    /\ UNCHANGED aloneVars

Next ==
    \/ PullRequest
    \/ \E id \in RequestIds : SocketFetchArrives(id)
    \/ \E id \in RequestIds, c \in CycleOutcomes : HandlerCompletes(id, c)
    \/ AdvanceTime
    \/ \E c \in CycleOutcomes : BroadcastCompletes(c)
    \/ \E s \in Subscribers : Connect(s)
    \/ \E s \in Subscribers : Disconnect(s)
    \/ \E s \in Subscribers : SocketRequest(s)
    \/ \E id \in RequestIds : SocketFetchReturns(id)

Spec == Init /\ [][Next]_vars

----------------------------------------------------------------------------
(* The engine over three timer periods, every refresh succeeding *)

\* The clock runs for SubscriberIntervals periods of the broadcast timer,
\* one and a half TTL, and every upstream call of every refresh cycle
\* answers well.
SubscriberIntervals == 3

GoodCycle ==
    [responses |-> ValidResponses, rates |-> fetchAllExchangeData(ValidResponses)]

NextSubscriber ==
    \/ PullRequest
    \/ \E id \in RequestIds : SocketFetchArrives(id)
    \/ \E id \in RequestIds : HandlerCompletes(id, GoodCycle)
    \/ AdvanceTimeTo(BROADCAST_INTERVAL * SubscriberIntervals)
    \/ BroadcastCompletes(GoodCycle)
    \/ \E s \in Subscribers : Connect(s)
    \/ \E s \in Subscribers : Disconnect(s)
    \/ \E s \in Subscribers : SocketRequest(s)
    \/ \E id \in RequestIds : SocketFetchReturns(id)

SpecSubscriber == Init /\ [][NextSubscriber]_vars

----------------------------------------------------------------------------
(* One refresh cycle taken alone: the upstream calls of fetchAllExchangeData *)

\* The configured sources (apiCalls), in configuration order, by the name
\* the responses are destructured to.
apiCalls ==
    <<"binanceRatesData", "binanceFundingInfoData", "bybitRatesData",
      "bybitInstrumentsData", "bitgetRatesData", "bitgetContractsData",
      "okxTickersData", "okxInstrumentsData", "hyperliquidData",
      "gateContractsData">>

\* What an upstream does with one call:
\*   "ok"         answers 2xx with JSON text;
\*   "transport"  the connection fails (fetch rejects);
\*   "status"     answers with a non-2xx status (and a JSON error body);
\*   "text"       answers 2xx with text that is no JSON;
\*   "silent"     never answers;
\*   "stalls"     sends its status line and headers and never ends the body.
Answers == {"ok", "transport", "status", "text"}

\* A call that has not settled; a call whose headers have arrived.
Pending == [shape |-> "pending"]

AwaitingBody == [shape |-> "body"]

\* A faulty callback, to test that a property notices it: the body of a
\* non-2xx answer is parsed and returned like any other.
apiCallIgnoresStatus(outcome, payload) ==
    IF outcome = "ok" THEN payload
    ELSE IF outcome = "status" THEN ErrorBody
    ELSE Null

\* The callback of apiCalls.map: the slot of a call the upstream answered.
\* Every failure is caught and gives null.
apiCall(outcome, payload) ==
    IF outcome = "ok" THEN payload ELSE Null

\* fetchWithTimeout, from the arrival of the headers: response.json() of
\* whatever status; a body that is no JSON is caught and gives null.
fetchWithTimeout(outcome, payload) ==
    IF outcome = "ok" THEN payload
    ELSE IF outcome = "status" THEN ErrorBody
    ELSE Null

\* The plans of the upstreams the model draws from: what each configured
\* source and each OKX per-instrument call will do.
AllAnswer == [k \in 1..Len(apiCalls) |-> "ok"]

BatchPlans ==
    {[sources |-> AllAnswer, okx |-> <<o>>] :
        o \in Answers \cup {"silent", "stalls"}}
    \cup {[sources |-> [AllAnswer EXCEPT ![k] = o], okx |-> <<"ok">>] :
            k \in 1..Len(apiCalls), o \in (Answers \ {"ok"}) \cup {"silent"}}
    \cup {[sources |-> [k \in 1..Len(apiCalls) |-> o], okx |-> <<"ok">>] :
            o \in Answers \ {"ok"}}
    \cup {[sources |-> [k \in 1..Len(apiCalls) |->
                          <<"ok", "transport", "status", "text">>[(k % 4) + 1]],
           okx |-> <<"ok">>]}

\* The responses as fetchAllExchangeData destructures them, with what the
\* OKX per-instrument calls returned.
responsesOf(slots, okx) ==
    [binanceRatesData |-> slots[1], binanceFundingInfoData |-> slots[2],
     bybitRatesData |-> slots[3], bybitInstrumentsData |-> slots[4],
     bitgetRatesData |-> slots[5], bitgetContractsData |-> slots[6],
     okxTickersData |-> slots[7], okxInstrumentsData |-> slots[8],
     hyperliquidData |-> slots[9], gateContractsData |-> slots[10],
     okxFundingCalls |-> okx]

\* The engine at rest (module initialisation).
EngineIdle ==
    /\ now = 0
    /\ route = [cachedData |-> NoData, lastCacheTime |-> 0]
    /\ socket = [cachedData |-> NoData, lastCacheTime |-> 0]
    /\ requests = [id \in RequestIds |-> FreeRequest]
    /\ broadcasts = 0
    /\ connected = {}
    /\ lastPullCycle = -1
    /\ out = [op |-> "init"]

\* fetchAllExchangeData has issued the calls of apiCalls and awaits
\* Promise.all.  Once the cycle is done, batch.responses holds the responses
\* it worked on.
InitBatch ==
    /\ EngineIdle
    /\ batch \in {[plan |-> p,
                   slots |-> [k \in 1..Len(apiCalls) |-> Pending],
                   phase |-> "batch",
                   okx |-> <<>>,
                   responses |-> Unused] : p \in BatchPlans}
    /\ given = Unused
    /\ computed = Unused

\* One call of the batch settles: the upstream answered or the connection
\* failed.  No timer is set on these calls.
CallSettles(k) ==
    /\ batch.phase = "batch"
    /\ batch.slots[k] = Pending
    /\ batch.plan.sources[k] \in Answers
    /\ batch' = [batch EXCEPT !.slots[k] =
                    apiCall(batch.plan.sources[k], ValidResponses[apiCalls[k]])]
    /\ UNCHANGED <<engineVars, given, computed>>

\* Promise.all resolves and fetchAllExchangeData runs on to the OKX
\* per-instrument calls (one batch of at most 50, fetched in parallel), or
\* to its return when there is none or when a normalizer before them raises.
BatchResolves ==
    /\ batch.phase = "batch"
    /\ \A k \in 1..Len(apiCalls) : batch.slots[k] # Pending
    /\ LET r == responsesOf(batch.slots, <<>>)
           n == Len(okxUsdtContracts(r.okxTickersData))
       IN  IF fetchError(r) # "" \/ n = 0
           THEN batch' = [batch EXCEPT !.phase = "done", !.responses = r]
           ELSE batch' = [batch EXCEPT !.phase = "okx",
                                       !.okx = [i \in 1..n |-> Pending]]
    /\ UNCHANGED <<engineVars, given, computed>>

\* fetchWithTimeout: the fetch rejects (connection failure), caught, null.
OkxRejects(i) ==
    /\ batch.phase = "okx"
    /\ batch.okx[i] = Pending
    /\ batch.plan.okx[i] = "transport"
    /\ batch' = [batch EXCEPT !.okx[i] = Null]
    /\ UNCHANGED <<engineVars, given, computed>>

\* fetchWithTimeout: the timer fires before the headers have arrived and
\* aborts the fetch, which rejects: caught, null.
OkxTimeout(i) ==
    /\ batch.phase = "okx"
    /\ batch.okx[i] = Pending
    /\ batch' = [batch EXCEPT !.okx[i] = Null]
    /\ UNCHANGED <<engineVars, given, computed>>

\* fetchWithTimeout: the headers arrive, fetch resolves, the timer is
\* cleared and response.json() is awaited.
OkxHeadersArrive(i) ==
    /\ batch.phase = "okx"
    /\ batch.okx[i] = Pending
    /\ batch.plan.okx[i] \in {"ok", "status", "text", "stalls"}
    /\ batch' = [batch EXCEPT !.okx[i] = AwaitingBody]
    /\ UNCHANGED <<engineVars, given, computed>>

\* fetchWithTimeout: the body ends and response.json() settles.
OkxBodyArrives(i) ==
    /\ batch.phase = "okx"
    /\ batch.okx[i] = AwaitingBody
    /\ batch.plan.okx[i] \in {"ok", "status", "text"}
    /\ batch' = [batch EXCEPT !.okx[i] =
                    fetchWithTimeout(batch.plan.okx[i],
                                     ValidResponses.okxFundingCalls[i])]
    /\ UNCHANGED <<engineVars, given, computed>>

\* The OKX batch's Promise.all resolves and fetchAllExchangeData runs to its
\* return.
OkxResolves ==
    /\ batch.phase = "okx"
    /\ \A i \in 1..Len(batch.okx) : batch.okx[i] \notin {Pending, AwaitingBody}
    /\ batch' = [batch EXCEPT !.phase = "done",
                    !.responses = responsesOf(batch.slots, batch.okx)]
    /\ UNCHANGED <<engineVars, given, computed>>

\* What the cycle that is done returned.
batchReturned == fetchAllExchangeData(batch.responses)

NextBatch ==
    \/ \E k \in 1..Len(apiCalls) : CallSettles(k)
    \/ BatchResolves
    \/ \E i \in 1..Len(batch.okx) : OkxRejects(i)
    \/ \E i \in 1..Len(batch.okx) : OkxTimeout(i)
    \/ \E i \in 1..Len(batch.okx) : OkxHeadersArrive(i)
    \/ \E i \in 1..Len(batch.okx) : OkxBodyArrives(i)
    \/ OkxResolves

\* The event loop runs every continuation that is ready, every timer that
\* is due fires, and an upstream that answers does so eventually.
SpecBatch == InitBatch /\ [][NextBatch]_vars /\ WF_vars(NextBatch)

----------------------------------------------------------------------------
(* The Rate Normalizers and the merge taken alone *)

Exchanges == {"Binance", "Bybit", "Bitget", "OKX", "HyperLiquid", "Gate"}

\* The base of an instrument identifier: a coin, or nothing (the identifier
\* consists of the quote suffix only).
Bases == {<<"SOL">>, <<>>}

\* The funding rate field of an item: absent, no number, zero, a fraction
\* that rounds to 0.0000 %, negative, positive, infinite.
RateFields ==
    {Absent, Text, NumStr(0), NumStr(49), NumStr(-5000), NumStr(10049), InfStr(1)}

\* The settlement interval an exchange reports, in hours: absent, no
\* number, zero, 4, 8, negative.
IntervalFields == {Absent, Text, NumStr(0), NumStr(4), NumStr(8), NumStr(-4)}

\* An interval field in the unit of the exchange (k units per hour).
InUnits(f, k) == IF f.k = "num" THEN NumStr(f.v * k) ELSE f

\* OKX reports no interval but two funding times (ms), interval hours apart.
okxNextFundingTime(interval, fundingTime) ==
    IF interval.k = "num" THEN NumStr(fundingTime + interval.v * 3600000)
    ELSE interval

\* The upstream responses in which one exchange lists one instrument of
\* the given base, funding rate and interval, the other exchanges answering
\* as in ValidResponses.
responsesFor(exchange, base, rate, interval) ==
    IF exchange = "Binance" THEN
        [ValidResponses EXCEPT
            !.binanceRatesData =
                List(<<[symbol |-> base \o <<"USDT">>, lastFundingRate |-> rate]>>),
            !.binanceFundingInfoData =
                List(<<[symbol |-> base \o <<"USDT">>,
                        fundingIntervalHours |-> interval]>>)]
    ELSE IF exchange = "Bybit" THEN
        [ValidResponses EXCEPT
            !.bybitRatesData =
                Wrapped(<<[symbol |-> base \o <<"USDT">>, fundingRate |-> rate]>>),
            !.bybitInstrumentsData =
                Wrapped(<<[symbol |-> base \o <<"USDT">>,
                           fundingInterval |-> InUnits(interval, 60)]>>)]
    ELSE IF exchange = "Bitget" THEN
        [ValidResponses EXCEPT
            !.bitgetRatesData =
                Wrapped(<<[symbol |-> base \o <<"USDT">>, fundingRate |-> rate]>>),
            !.bitgetContractsData =
                Wrapped(<<[symbol |-> base \o <<"USDT">>, fundInterval |-> interval]>>)]
    ELSE IF exchange = "OKX" THEN
        [ValidResponses EXCEPT
            !.okxTickersData = Wrapped(<<[instId |-> base \o <<"-USDT-SWAP">>]>>),
            !.okxFundingCalls =
                <<Wrapped(<<[instId |-> base \o <<"-USDT-SWAP">>,
                             fundingRate |-> rate,
                             nextFundingTime |-> okxNextFundingTime(interval, 3600000),
                             fundingTime |-> NumStr(3600000)]>>)>>]
    ELSE IF exchange = "HyperLiquid" THEN
        [ValidResponses EXCEPT
            !.hyperliquidData =
                [shape |-> "list",
                 universe |-> <<[name |-> base]>>,
                 ctxs |-> <<[funding |-> rate]>>]]
    ELSE
        [ValidResponses EXCEPT
            !.gateContractsData =
                List(<<[name |-> base \o <<"_USDT">>,
                        funding_rate |-> rate,
                        funding_interval |-> InUnits(interval, 3600)]>>)]

\* The inputs the normalizers are applied to.
RateInputs ==
    {[exchange |-> e, base |-> b, rate |-> f, interval |-> i,
      responses |-> responsesFor(e, b, f, i)] :
        e \in Exchanges, b \in Bases, f \in RateFields, i \in IntervalFields}

InitRates ==
    /\ EngineIdle
    /\ batch = Unused
    /\ given \in RateInputs
    /\ computed = Unused

\* fetchAllExchangeData, from the responses to the merged rate set.
Normalize ==
    /\ computed = Unused
    /\ computed' = [produced |-> producedRates(given.responses),
                    allRates |-> allRates(given.responses)]
    /\ UNCHANGED <<engineVars, batch, given>>

NextRates == Normalize

SpecRates == InitRates /\ [][NextRates]_vars

----------------------------------------------------------------------------
(* The Arbitrage Detector taken alone *)

\* The detector is given two rates of BTC, on Binance and on Bybit, and a
\* rate of ETH on OKX; currentRate in units of 1e-4 percent, intervals in
\* minutes (1, 8 and 21.9 hours).
DetectorRates == {-51, -50, -49, -13, -12, -2, 2, 3, 12, 13, 23, 100}

DetectorIntervals == {60, 8 * 60, 1314}

detectorRate(symbol, exchange, rate, interval) ==
    [symbol |-> symbol,
     exchange |-> exchange,
     currentRate |-> Num(rate),
     isSpecialInterval |-> interval # 8 * 60,
     settlementInterval |-> interval]

DetectorInputs ==
    { <<detectorRate(<<"BTC">>, "Binance", a, m),
        detectorRate(<<"BTC">>, "Bybit", b, n),
        detectorRate(<<"ETH">>, "OKX", -80, 8 * 60)>> :
        <<a, b, m, n>> \in DetectorRates \X DetectorRates
                            \X DetectorIntervals \X DetectorIntervals }

InitDetector ==
    /\ EngineIdle
    /\ batch = Unused
    /\ given \in DetectorInputs
    /\ computed = Unused

\* calculateArbitrageOpportunities(allRates)
Detect ==
    /\ computed = Unused
    /\ computed' = [opportunities |-> calculateArbitrageOpportunities(given)]
    /\ UNCHANGED <<engineVars, batch, given>>

NextDetector == Detect

SpecDetector == InitDetector /\ [][NextDetector]_vars

----------------------------------------------------------------------------
(* The Arbitrage Detector on lists of rates, run twice *)

\* The rates the lists are made of: the two end-to-end scenarios (BTC on
\* Binance and Bybit, ETH on HyperLiquid and OKX) and four more rates.
RankingPool ==
    <<detectorRate(<<"ETH">>, "HyperLiquid", -80, 60),
      detectorRate(<<"ETH">>, "OKX", 20, 8 * 60),
      detectorRate(<<"BTC">>, "Binance", 100, 8 * 60),
      detectorRate(<<"BTC">>, "Bybit", -50, 8 * 60),
      detectorRate(<<"BTC">>, "Gate", -60, 4 * 60),
      detectorRate(<<"SOL">>, "Bitget", 30, 8 * 60),
      detectorRate(<<"SOL">>, "Gate", -30, 8 * 60),
      detectorRate(<<"SOL">>, "HyperLiquid", -200, 60)>>

\* The lists of four different rates of the pool, in every order, and the
\* whole pool forwards and backwards.
RankingInputs ==
    { [i \in 1..4 |-> RankingPool[f[i]]] :
        f \in { g \in [1..4 -> 1..Len(RankingPool)] :
                  \A i, j \in 1..4 : i # j => g[i] # g[j] } }
    \cup {RankingPool,
          [i \in 1..Len(RankingPool) |-> RankingPool[Len(RankingPool) + 1 - i]]}

InitRanking ==
    /\ EngineIdle
    /\ batch = Unused
    /\ given \in RankingInputs
    /\ computed = Unused

\* A first call of calculateArbitrageOpportunities on the list.
DetectFirst ==
    /\ computed = Unused
    /\ computed' = [opportunities |-> calculateArbitrageOpportunities(given)]
    /\ given' = ratesAfter(given)
    /\ UNCHANGED <<engineVars, batch>>

\* A second call on the same array.
DetectAgain ==
    /\ computed # Unused
    /\ "again" \notin DOMAIN computed
    /\ computed' = [opportunities |-> computed.opportunities,
                    again |-> calculateArbitrageOpportunities(given)]
    /\ given' = ratesAfter(given)
    /\ UNCHANGED <<engineVars, batch>>

NextRanking == DetectFirst \/ DetectAgain

SpecRanking == InitRanking /\ [][NextRanking]_vars

----------------------------------------------------------------------------
(* The OKX per-instrument calls of one refresh taken alone *)

batchSize == 50

\* The ticker listing has n USDT perpetual instruments (and one that is
\* not), named by their position.
OkxListed == {0, 1, 50, 51, 100, 120}

okxInstId(k) == <<ToString(k), "-USDT-SWAP">>

okxTickers(n) ==
    Wrapped([k \in 1..n |-> [instId |-> okxInstId(k)]]
            \o <<[instId |-> <<"ETH", "-USD-SWAP">>]>>)

\* The batches whose calls all fail (fetchWithTimeout returns null); the
\* calls of the other batches return a funding rate.
OkxFailing == SUBSET (1..3)

okxAnswer(k) ==
    Wrapped(<<[instId |-> okxInstId(k),
               fundingRate |-> NumStr(2000),
               nextFundingTime |-> NumStr(28800000),
               fundingTime |-> NumStr(0)]>>)

\* Math.min(i + batchSize, okxUsdtContracts.length)
okxMin(a, b) == IF a < b THEN a ELSE b

okxDelayAlways(i, n) == TRUE

\* if (i + batchSize < okxUsdtContracts.length): the 200 ms delay is due.
okxDelayDue(i, n) == i + batchSize < n

\* computed is the loop: i its index, phase where it waits ("calls": on
\* Promise.all, with pending calls not yet settled; "delay": on the 200 ms
\* timer), requested[k] the number of calls issued for the k-th listed
\* instrument.  The calls of a batch are told apart only by their
\* position: Promise.all orders the results by position, whatever the
\* order in which the calls settle.
InitOkx ==
    /\ EngineIdle
    /\ batch = Unused
    /\ given \in { [tickers |-> okxTickers(n), failing |-> f] :
                      n \in OkxListed, f \in OkxFailing }
    /\ computed = [phase |-> "start", i |-> 0, pending |-> 0,
                   requested |->
                      [k \in 1..Len(okxUsdtContracts(given.tickers)) |-> 0],
                   okxFundingRatesData |-> <<>>]

\* One iteration of the for loop up to its await Promise.all: at the start
\* with i = 0, after a delay with i += batchSize.
OkxBatchStarts ==
    LET n == Len(okxUsdtContracts(given.tickers))
        i == IF computed.phase = "start" THEN 0 ELSE computed.i + batchSize
        end == okxMin(i + batchSize, n)
    IN  /\ computed.phase \in {"start", "delay"}
        /\ computed' =
              IF i < n
              THEN [computed EXCEPT
                      !.phase = "calls", !.i = i, !.pending = end - i,
                      !.requested = [k \in 1..n |->
                          IF k > i /\ k <= end THEN @[k] + 1 ELSE @[k]]]
              ELSE [computed EXCEPT !.phase = "done", !.i = i]
        /\ UNCHANGED <<engineVars, batch, given>>

\* One call of the batch in flight settles: fetchWithTimeout returns.
OkxCallSettles ==
    /\ computed.phase = "calls"
    /\ computed.pending > 0
    /\ computed' = [computed EXCEPT !.pending = @ - 1]
    /\ UNCHANGED <<engineVars, batch, given>>

\* Promise.all resolves: the non-null results are pushed, and the loop
\* waits for the delay or, after the last batch, ends.
OkxBatchResolves ==
    LET n == Len(okxUsdtContracts(given.tickers))
        i == computed.i
        end == okxMin(i + batchSize, n)
        failed == (i \div batchSize) + 1 \in given.failing
        batchResults == [k \in 1..(end - i) |->
                            IF failed THEN Null ELSE okxAnswer(i + k)]
    IN  /\ computed.phase = "calls"
        /\ computed.pending = 0
        /\ computed' = [computed EXCEPT
              !.okxFundingRatesData = @ \o okxKept(batchResults),
              !.phase = IF okxDelayDue(i, n) THEN "delay" ELSE "done"]
        /\ UNCHANGED <<engineVars, batch, given>>

NextOkx == OkxBatchStarts \/ OkxCallSettles \/ OkxBatchResolves

SpecOkx == InitOkx /\ [][NextOkx]_vars

----------------------------------------------------------------------------
(* One refresh on a listing that holds an instrument twice *)

\* The funding rates of the two entries (units of 1e-8) and the symbol of
\* the second entry: the instrument of the first entry again, or another
\* instrument that replace('USDT', '') maps to the same symbol.
ListedRates == {10000, 9900, 4000, -3000, -5000}

SecondSymbols == {<<"BTC", "USDT">>, <<"USDT", "BTC", "USDT">>}

\* The responses of a refresh in which every source answers well and the
\* rate listing of Binance or of Bybit holds BTC and the second entry.
listingTwice(exchange, second, a, b) ==
    IF exchange = "Binance"
    THEN [ValidResponses EXCEPT !.binanceRatesData =
            List(<<[symbol |-> <<"BTC", "USDT">>, lastFundingRate |-> NumStr(a)],
                   [symbol |-> second, lastFundingRate |-> NumStr(b)]>>)]
    ELSE [ValidResponses EXCEPT !.bybitRatesData =
            Wrapped(<<[symbol |-> <<"BTC", "USDT">>, fundingRate |-> NumStr(a)],
                      [symbol |-> second, fundingRate |-> NumStr(b)]>>)]

InitTwice ==
    /\ EngineIdle
    /\ batch = Unused
    /\ given \in { listingTwice(e, y, a, b) :
                      e \in {"Binance", "Bybit"}, y \in SecondSymbols,
                      a \in ListedRates, b \in ListedRates }
    /\ computed = Unused

\* fetchAllExchangeData, from the responses to what it returns.
RefreshTwice ==
    /\ computed = Unused
    /\ computed' = fetchAllExchangeData(given)
    /\ UNCHANGED <<engineVars, batch, given>>

NextTwice == RefreshTwice

SpecTwice == InitTwice /\ [][NextTwice]_vars

----------------------------------------------------------------------------
(* Properties *)

\* The last step completed a refresh cycle (out holds its upstream
\* responses and what fetchAllExchangeData returned).
CycleCompleted(o) == o.op \in {"pullDone", "broadcast"}

\* Every upstream call of the cycle failed.
EverySourceFailed(r) ==
    /\ \A s \in Slots : r[s] = Null
    /\ \A i \in 1..Len(r.okxFundingCalls) : r.okxFundingCalls[i] = Null

\* The slots that hold parseable JSON of an unexpected shape.
Misshapen(r) == {s \in Slots : r[s].shape \in {"obj", "wrappedObj"}}

\* One slot is misshapen and every other slot holds its valid payload.
OneSourceMisshapen(r, s) ==
    /\ Misshapen(r) = {s}
    /\ \A x \in Slots \ {s} : r[x] = ValidResponses[x]
    /\ r.okxFundingCalls = ValidResponses.okxFundingCalls

\* C1: at every moment at most one refresh cycle (fetchAllExchangeData) is
\* in flight, whatever the interleaving of pull requests, subscriber
\* requests and timer ticks.
C1_SingleFlight == inFlightCycles <= 1

\* C2: a timer tick starts a refresh cycle whatever the cache holds, and
\* when the cycle completes every subscriber connected at that moment is
\* sent its snapshot as a 'funding-rates' message.
C2_BroadcastReachesSubscribers ==
    /\ out.op = "tick" => broadcasts >= 1
    /\ out.op = "broadcast" =>
          /\ out.to = connected
          /\ out.message = WithLastUpdate(out.rates, now)

\* C3: a refresh cycle that fails or yields zero usable rates, started by a
\* pull request or by the timer, leaves the cached snapshot and its fetch
\* timestamp as they were; nor does a subscriber request replace the
\* snapshot it caches by a failed or empty one.
C3_FailedCycleKeepsCache ==
    [][/\ (CycleCompleted(out')
             /\ (~out'.rates.success \/ out'.rates.data = <<>>))
          => route' = route
       /\ (out'.op = "socketReply" /\ socket' # socket)
          => (socket'.cachedData.success /\ socket'.cachedData.data # <<>>)
      ]_vars

\* C4: a refresh cycle reports success when at least one exchange returned
\* usable data, and reports failure when every exchange source failed.
C4_SuccessIffSomeSourceUsable ==
    CycleCompleted(out) =>
        /\ allRates(out.responses) # <<>> => out.rates.success
        /\ EverySourceFailed(out.responses) => ~out.rates.success

\* C5: when all six exchange fetchers fail, the pull endpoint returns the
\* previous cached snapshot unchanged if one exists, and otherwise
\* success:false with a non-empty error message and no partial data.
C5_TotalFailureServesLastGood ==
    [][(out'.op = "pullDone" /\ EverySourceFailed(out'.responses)) =>
          IF route.cachedData # NoData
          THEN out'.response.body = route.cachedData /\ route' = route
          ELSE /\ ~out'.response.body.success
               /\ "error" \in DOMAIN out'.response.body
               /\ out'.response.body.error # ""
               /\ "data" \notin DOMAIN out'.response.body
      ]_vars

\* C6: when one source returns parseable JSON of an unexpected shape and
\* the other sources return valid payloads, the refresh succeeds with zero
\* rates for that source and all valid rates of the others, and the pull
\* endpoint does not answer success:false.
C6_MisshapenSourceDegrades ==
    \A s \in Slots :
        (CycleCompleted(out) /\ OneSourceMisshapen(out.responses, s)) =>
            /\ out.rates.success
            /\ out.rates.data = allRates([out.responses EXCEPT ![s] = Null])
            /\ out.op = "pullDone" => out.response.body.success

\* C7: on both on-demand paths a request is served from the cache, with no
\* upstream call, exactly when a snapshot exists and now - fetchedAt < 60 s;
\* with no snapshot or now - fetchedAt >= 60 s a refresh is triggered.
C7_FreshIffYoungerThanTtl ==
    [][/\ out'.op = "pull" =>
            (~out'.cycle <=>
                (route.cachedData # NoData /\ now - route.lastCacheTime < 60000))
       /\ out'.op = "socketRequest" =>
            (~out'.fetch <=>
                (socket.cachedData # NoData /\ now - socket.lastCacheTime < 60000))
      ]_vars

\* C8: two pull requests issued within the TTL (60 s) of each other with no
\* timer refresh between them trigger at most one refresh cycle: a request
\* that starts a cycle comes at least 60 s after the last one that did.
C8_OneCyclePerTtl ==
    [][(out'.op = "pull" /\ out'.cycle /\ lastPullCycle # -1)
          => now - lastPullCycle >= 60000]_vars

\* C9: there is one live snapshot per process: the snapshot the on-connect
\* push and a subscriber's request read is the one the pull endpoint reads.
C9_OneLiveSnapshot == socket.cachedData = route.cachedData

\* rates and opportunities of a snapshot come from the same refresh.
SnapshotWhole(d) ==
    (d # NoData /\ d.success) =>
        d.arbitrageOpportunities = calculateArbitrageOpportunities(d.data)

\* C10: a cache is only ever replaced as a whole: a step that changes the
\* snapshot or the timestamp of a cache sets both to the pair of the
\* operation that completed in that step (the snapshot it built and the
\* time it stamps it with), and the opportunities of a cached snapshot are
\* those of its own rates.
C10_AtomicReplace ==
    [][/\ route' # route =>
            \/ /\ out'.op = "pullDone"
               /\ route' = [cachedData |-> out'.response.body,
                            lastCacheTime |-> out'.currentTime]
            \/ /\ out'.op = "broadcast"
               /\ route' = [cachedData |-> out'.rates, lastCacheTime |-> now']
       /\ socket' # socket =>
            /\ out'.op = "socketReply"
            /\ \E id \in RequestIds :
                  /\ requests[id].state = "answered"
                  /\ requests'[id] = FreeRequest
                  /\ socket' = [cachedData |-> requests[id].response.body,
                                lastCacheTime |-> requests[id].socketTime]
       /\ SnapshotWhole(route'.cachedData)
       /\ SnapshotWhole(socket'.cachedData)
      ]_vars

\* C10 witness: a pull-started cycle has replaced the route's pair, stamped
\* with a time other than the initial one, by a snapshot with opportunities.
C10_Witness ==
    /\ out.op = "pullDone"
    /\ out.rates.success
    /\ route.lastCacheTime = out.currentTime
    /\ route.lastCacheTime > 0
    /\ route.cachedData = out.response.body
    /\ Len(route.cachedData.arbitrageOpportunities) > 0

\* C13: when a subscriber connects it is sent the currently cached snapshot
\* (the one the refresh cycles write and the pull endpoint serves) if and
\* only if one exists, and the connection starts no refresh cycle.
C13_ConnectPushesSnapshot ==
    [][out'.op = "connect" =>
          /\ (route.cachedData # NoData /\ route.cachedData.success)
                => out'.messages = <<route.cachedData>>
          /\ (route.cachedData = NoData /\ socket.cachedData = NoData)
                => out'.messages = <<>>
          /\ inFlightCycles' = inFlightCycles
          /\ requests' = requests
      ]_vars

\* C11: every refresh cycle eventually completes, whatever the upstreams do
\* (a source that never responds included): every upstream call is cut off
\* by a timeout of its own and counts as a failure of that source only.
C11_CycleCompletes == <>(batch.phase = "done")

\* The batch fetch has resolved.
BatchResolved == batch.phase \in {"okx", "done"}

\* C12: whatever each source does (success, transport error, non-2xx
\* status, text that is no JSON), the batch fetch resolves, without
\* raising, to one slot per configured source in configuration order: the
\* source's payload if it succeeded, null if it failed.
C12_OneSlotPerSource ==
    /\ (batch.phase = "batch"
          /\ \A k \in 1..Len(apiCalls) : batch.plan.sources[k] \in Answers)
       => ENABLED NextBatch
    /\ BatchResolved =>
          /\ DOMAIN batch.slots = 1..Len(apiCalls)
          /\ \A k \in 1..Len(apiCalls) :
                batch.slots[k] = IF batch.plan.sources[k] = "ok"
                                 THEN ValidResponses[apiCalls[k]] ELSE Null

\* C12 witness: the batch has resolved with a slot holding a payload
\* between two null slots of sources that failed differently.
C12_Witness ==
    /\ BatchResolved
    /\ batch.plan.sources[2] = "status" /\ batch.slots[2] = Null
    /\ batch.plan.sources[3] = "text" /\ batch.slots[3] = Null
    /\ batch.plan.sources[4] = "ok"
    /\ batch.slots[4] = ValidResponses.bybitInstrumentsData
    /\ batch.plan.sources[5] = "transport" /\ batch.slots[5] = Null

\* The normalizers and the merge have run on the given responses.
Normalized == computed # Unused /\ "allRates" \in DOMAIN computed

\* The given instrument carries a funding rate that is a number other than
\* zero once printed with four decimals.
GivenRateUsable == validRate([currentRate |-> RateToFixed4(parseFloat(given.rate))])

\* The rates of the merged set that come from the exchange of the given
\* instrument.
GivenMerged ==
    SelectSeq(computed.allRates,
              LAMBDA x : x.exchange = given.exchange /\ x.symbol = given.base)

\* C14: no rate whose numeric currentRate is zero or non-finite (NaN or
\* infinite) is in the merged rate set, whatever the upstream payloads.
C14_NoZeroOrNonFiniteRate ==
    Normalized =>
        \A i \in 1..Len(computed.allRates) :
            /\ ~computed.allRates[i].currentRate.nan
            /\ computed.allRates[i].currentRate.inf = 0
            /\ computed.allRates[i].currentRate.v # 0

\* C15: no rate with an empty symbol or an empty exchange is in the merged
\* rate set, whatever the upstream payloads (an instrument identifier that
\* is only the quote suffix included).
C15_NoEmptySymbolOrExchange ==
    Normalized =>
        \A i \in 1..Len(computed.allRates) :
            /\ Len(computed.allRates[i].symbol) > 0
            /\ computed.allRates[i].exchange # ""

\* C16: every rate of the merged set has a settlementInterval that is a
\* positive number of hours, and an instrument whose exchange gives no
\* usable interval (absent, zero or unparseable) is merged with 8 hours.
C16_PositiveIntervalDefault8 ==
    Normalized =>
        /\ \A i \in 1..Len(computed.allRates) :
              computed.allRates[i].settlementInterval > 0
        /\ (/\ given.interval \in {Absent, Text, NumStr(0)}
            /\ given.exchange # "HyperLiquid"
            /\ GivenRateUsable)
           => /\ Len(GivenMerged) = 1
              /\ GivenMerged[1].settlementInterval = 8 * 60

\* C17: every rate a normalizer produces has
\* isSpecialInterval = (settlementInterval # 8 hours).
C17_SpecialIffNot8 ==
    Normalized =>
        \A i \in 1..Len(computed.produced) :
            computed.produced[i].isSpecialInterval
                = (computed.produced[i].settlementInterval # 8 * 60)

\* C17 witness: the normalizers have produced a rate on a 4-hour interval
\* that is marked special, an 8-hour one that is not, and HyperLiquid's
\* hourly one.
C17_Witness ==
    /\ Normalized
    /\ \E i, j, k \in 1..Len(computed.produced) :
          /\ computed.produced[i].exchange = "Binance"
          /\ computed.produced[i].settlementInterval = 4 * 60
          /\ computed.produced[i].isSpecialInterval
          /\ computed.produced[j].exchange = "OKX"
          /\ computed.produced[j].settlementInterval = 8 * 60
          /\ ~computed.produced[j].isSpecialInterval
          /\ computed.produced[k].exchange = "HyperLiquid"
          /\ computed.produced[k].settlementInterval = 60
          /\ computed.produced[k].isSpecialInterval

\* The detector has run on the given rates.
Detected == computed # Unused /\ "opportunities" \in DOMAIN computed

\* The two BTC rates the detector was given, and the one quoted on the
\* shorter interval.
btc1 == groupEntry(given[1])

btc2 == groupEntry(given[2])

btcShortPeriod ==
    IF btc1.settlementInterval < btc2.settlementInterval THEN btc1 ELSE btc2

btcOpportunities ==
    SelectSeq(computed.opportunities, LAMBDA o : o.symbol = <<"BTC">>)

C19_SamePeriodThresholds ==
    (Detected /\ btc1.settlementInterval = btc2.settlementInterval) =>
        LET rateDiff == Abs(btc1.currentRate - btc2.currentRate)
            emitted == /\ Len(btcOpportunities) = 1
                       /\ btcOpportunities[1].type = "same_period"
        IN  /\ emitted <=>
                  /\ rateDiff >= 10
                  /\ rateDiff * 525600 > 10000 * btc1.settlementInterval
            /\ ~emitted => btcOpportunities = <<>>

\* C20: in every same_period opportunity longExchange is the exchange
\* quoting the lower rate and shortExchange the one quoting the higher rate
\* (longRate < shortRate), and rateDiff = shortRate - longRate; for BTC at
\* 0.0100 on Binance and -0.0050 on Bybit, both on 8 hours, the detector
\* emits exactly one opportunity: same_period, long Bybit, short Binance,
\* rateDiff 0.0150, annualYield 16.425.
C20_LongLowerShortHigher ==
    Detected =>
        /\ \A i \in 1..Len(computed.opportunities) :
              LET o == computed.opportunities[i]
                  lower == IF btc1.currentRate < btc2.currentRate
                           THEN btc1 ELSE btc2
                  higher == IF btc1.currentRate < btc2.currentRate
                            THEN btc2 ELSE btc1
              IN  o.type = "same_period" =>
                    /\ o.symbol = <<"BTC">>
                    /\ btc1.currentRate # btc2.currentRate
                    /\ o.longExchange = lower.exchange
                    /\ o.longRate = lower.currentRate
                    /\ o.shortExchange = higher.exchange
                    /\ o.shortRate = higher.currentRate
                    /\ o.longRate < o.shortRate
                    /\ o.rateDiff = o.shortRate - o.longRate
        /\ (/\ btc1.currentRate = 100 /\ btc1.settlementInterval = 8 * 60
            /\ btc2.currentRate = -50 /\ btc2.settlementInterval = 8 * 60)
           => /\ Len(btcOpportunities) = 1
              /\ btcOpportunities[1].type = "same_period"
              /\ btcOpportunities[1].longExchange = "Bybit"
              /\ btcOpportunities[1].shortExchange = "Binance"
              /\ btcOpportunities[1].rateDiff = 150
              /\ btcOpportunities[1].settlementPeriod = 8 * 60
              \* 16.425 percent is 164250 units of 1e-4 percent
              /\ btcOpportunities[1].annualYield.p * 525600
                    = 164250 * btcOpportunities[1].annualYield.m

\* The detector has run on BTC at 0.0100 on Binance and -0.0050 on Bybit,
\* both on 8 hours, and emitted an opportunity.
C20_Witness ==
    /\ Detected
    /\ btc1.exchange = "Binance" /\ btc1.currentRate = 100
    /\ btc2.exchange = "Bybit" /\ btc2.currentRate = -50
    /\ btc1.settlementInterval = 8 * 60 /\ btc2.settlementInterval = 8 * 60
    /\ Len(btcOpportunities) = 1
    /\ btcOpportunities[1].longExchange = "Bybit"

\* The rates of the given list a group holds, as the detector reads them.
givenEntries == {groupEntry(given[i]) : i \in 1..Len(given)}

\* The list holds both rates of scenario 2: ETH at -0.0080 on HyperLiquid
\* (1 hour) and at 0.0020 on OKX (8 hours).
GivenScenario2 ==
    /\ \E i \in 1..Len(given) : given[i] = RankingPool[1]
    /\ \E i \in 1..Len(given) : given[i] = RankingPool[2]

ethOpportunities ==
    SelectSeq(computed.opportunities, LAMBDA o : o.symbol = <<"ETH">>)

\* C21: in every different_period opportunity longExchange is the exchange
\* with the shorter settlement interval and shortExchange the one with the
\* longer interval, expectedProfit is the absolute value of the
\* shorter-interval rate and annualYield is expectedProfit * (24 / shorter
\* interval) * 365; for ETH at -0.0080 on HyperLiquid (1 hour) and 0.0020 on
\* OKX (8 hours) the detector emits exactly one opportunity:
\* different_period, longExchange HyperLiquid, expectedProfit 0.0080,
\* annualYield 70.08.
C21_DifferentPeriodRoles ==
    Detected =>
        /\ \A i \in 1..Len(computed.opportunities) :
              LET o == computed.opportunities[i] IN
              o.type = "different_period" =>
                \E short, long \in givenEntries :
                    /\ short.symbol = o.symbol /\ long.symbol = o.symbol
                    /\ short.settlementInterval < long.settlementInterval
                    /\ o.longExchange = short.exchange
                    /\ o.shortExchange = long.exchange
                    /\ o.longRate = short.currentRate
                    /\ o.shortRate = long.currentRate
                    /\ o.settlementPeriod1 = short.settlementInterval
                    /\ o.settlementPeriod2 = long.settlementInterval
                    /\ o.expectedProfit = Abs(short.currentRate)
                    /\ o.annualYield = Yield(o.expectedProfit,
                                             short.settlementInterval)
        /\ GivenScenario2 =>
              /\ Len(ethOpportunities) = 1
              /\ ethOpportunities[1].type = "different_period"
              /\ ethOpportunities[1].longExchange = "HyperLiquid"
              /\ ethOpportunities[1].shortExchange = "OKX"
              /\ ethOpportunities[1].expectedProfit = 80
              \* 70.08 percent is 700800 units of 1e-4 percent
              /\ ethOpportunities[1].annualYield.p * 525600
                    = 700800 * ethOpportunities[1].annualYield.m

\* The detector has run on a list with the two rates of scenario 2 and
\* emitted the opportunity that is long on HyperLiquid.
C21_Witness ==
    /\ Detected
    /\ GivenScenario2
    /\ Len(ethOpportunities) = 1
    /\ ethOpportunities[1].longExchange = "HyperLiquid"
    /\ ethOpportunities[1].expectedProfit = 80

\* C22: in every different_period opportunity rateDiff is the absolute
\* value of the negative short-period rate: rateDiff equals expectedProfit.
C22_RateDiffIsExpectedProfit ==
    Detected =>
        \A i \in 1..Len(computed.opportunities) :
            LET o == computed.opportunities[i] IN
            o.type = "different_period" => o.rateDiff = o.expectedProfit

\* C23: in the detector's output every different_period opportunity comes
\* before every same_period opportunity, and within each type the
\* opportunities are in non-increasing order of annualYield.
C23_RankedByTypeThenYield ==
    Detected =>
        \A i, j \in 1..Len(computed.opportunities) :
            LET a == computed.opportunities[i]
                b == computed.opportunities[j]
            IN  i < j =>
                  /\ ~(a.type = "same_period" /\ b.type = "different_period")
                  /\ a.type = b.type =>
                        ~YieldGreater(b.annualYield, a.annualYield)

\* The detector has emitted opportunities of both types, several of one
\* type, and the sort has moved some of them.
C23_Witness ==
    /\ Detected
    /\ Len(computed.opportunities) >= 4
    /\ \E i \in 1..Len(computed.opportunities) :
          computed.opportunities[i].type = "different_period"
    /\ \E i, j \in 1..Len(computed.opportunities) :
          /\ i < j
          /\ computed.opportunities[i].type = "same_period"
          /\ computed.opportunities[j].type = "same_period"
          /\ YieldGreater(computed.opportunities[i].annualYield,
                          computed.opportunities[j].annualYield)
    /\ computed.opportunities # unsortedOpportunities(given, groupKeys(given), 1)

\* The detector has run a second time on the array of the first run.
DetectedAgain == Detected /\ "again" \in DOMAIN computed

OkxDone == "phase" \in DOMAIN computed /\ computed.phase = "done"

okxListedCount == Len(okxUsdtContracts(given.tickers))

\* The results of the per-instrument calls by position, and the responses
\* of a refresh whose other sources answer well.
okxCallResults ==
    [k \in 1..okxListedCount |->
        IF ((k - 1) \div batchSize) + 1 \in given.failing
        THEN Null ELSE okxAnswer(k)]

okxRefreshResponses ==
    [ValidResponses EXCEPT !.okxTickersData = given.tickers,
                           !.okxFundingCalls = okxCallResults]

\* The ticker lists 120 USDT perpetual instruments and every call of the
\* 3rd batch fails.
ThirdBatchFails == okxListedCount = 120 /\ given.failing = {3}

\* C25: when the OKX ticker lists 120 USDT perpetual instruments, the batch
\* size is 50 and every per-instrument call of the 3rd batch fails, the OKX
\* source yields the successfully parsed rates of the first two batches,
\* 100 rates (the 3rd batch holds the last 20 instruments), and the refresh
\* throws no error.
C25_ThirdBatchFailing ==
    (OkxDone /\ ThirdBatchFails) =>
        /\ Len(okxRatesOf(computed.okxFundingRatesData)) = 100
        /\ okxRatesOf(computed.okxFundingRatesData)
              = okxRates(given.tickers, okxCallResults)
        /\ fetchError(okxRefreshResponses) = ""

\* C25 as the spec states it: the OKX source yields 70 rates.
C25_AsStated ==
    (OkxDone /\ ThirdBatchFails) =>
        /\ Len(okxRatesOf(computed.okxFundingRatesData)) = 70
        /\ fetchError(okxRefreshResponses) = ""

\* The loop has ended on 120 instruments, the calls of the 3rd batch having
\* failed.
C25_Witness ==
    /\ OkxDone
    /\ ThirdBatchFails
    /\ computed.i = 2 * batchSize
    /\ Len(computed.okxFundingRatesData) = 100

SnapshotFields == {"success", "data", "arbitrageOpportunities", "lastUpdate"}

\* C26: every snapshot the pull endpoint returns with success = true, and
\* every snapshot sent to a subscriber as a 'funding-rates' message (on
\* connect, on demand or by broadcast), carries the fields success, data,
\* arbitrageOpportunities and lastUpdate.
C26_SnapshotShape ==
    /\ (/\ out.op \in {"pull", "pullDone"}
        /\ "response" \in DOMAIN out
        /\ out.response.status = 200
        /\ out.response.body.success)
       => SnapshotFields \subseteq DOMAIN out.response.body
    /\ out.op = "connect" =>
          \A i \in 1..Len(out.messages) :
              SnapshotFields \subseteq DOMAIN out.messages[i]
    /\ (/\ out.op \in {"socketRequest", "socketReply", "broadcast"}
        /\ "message" \in DOMAIN out
        /\ out.to # {})
       => SnapshotFields \subseteq DOMAIN out.message

\* C28: the cache's fetch timestamp never decreases: under any interleaving
\* of pull-request refreshes and timer refreshes, every replacement of the
\* cached snapshot leaves lastCacheTime greater than or equal to its
\* previous value.
C28_FetchTimeNeverDecreases ==
    [][/\ route'.lastCacheTime >= route.lastCacheTime
       /\ socket'.lastCacheTime >= socket.lastCacheTime]_vars

\* C30: a snapshot delivered in reply to a subscriber's on-demand
\* 'get-funding-rates' request never contains rates that were fetched
\* from the exchanges more than 60 s (the TTL) before the request.  The
\* lastUpdate of a snapshot the handler built is the time at which its
\* refresh returned, no earlier than the fetch of its rates; the request
\* was made at socket.lastCacheTime when its reply follows a fetch of
\* /api/funding-rates, and now when it is served from the subscriber
\* path's cache.
C30_OnDemandNotStale ==
    /\ (/\ out.op = "socketRequest"
        /\ ~out.fetch
        /\ "lastUpdate" \in DOMAIN socket.cachedData)
       => now - socket.cachedData.lastUpdate <= CACHE_DURATION
    /\ (/\ out.op = "socketReply"
        /\ out.event = "funding-rates"
        /\ "lastUpdate" \in DOMAIN socket.cachedData)
       => socket.lastCacheTime - socket.cachedData.lastUpdate <= CACHE_DURATION

\* C29: every emitted opportunity names two different exchanges, for any
\* merged rate set the normalizers can produce, a listing that holds the
\* same instrument twice or two instruments of one symbol included.
C29_TwoDifferentExchanges ==
    (computed # Unused /\ "arbitrageOpportunities" \in DOMAIN computed) =>
        \A i \in 1..Len(computed.arbitrageOpportunities) :
            computed.arbitrageOpportunities[i].longExchange
                # computed.arbitrageOpportunities[i].shortExchange

====
